---- MODULE Spec2Model ----
(***************************************************************************)
(* Model of the documentation compliance migration engine                  *)
(* (.apm/agents/scripts/doc-compliance-registry-integration.py):           *)
(* scan, classification triage, duplicate and reference detection, backup, *)
(* move execution and reference rewriting.                                 *)
(*                                                                         *)
(* Text (file contents, basenames) is a sequence of one-character strings; *)
(* a path is a record [dir, name] of its directory components below the    *)
(* project root and its basename; PathStr and DirStr spell it as text.     *)
(***************************************************************************)
EXTENDS Integers, Sequences, FiniteSets, TLC

VARIABLES
    pc,             \* position of the run inside main / execute_migration
    args,           \* parsed command line: [mode, dry_run, auto]
    fs,             \* the filesystem: existing file path -> content
    fs0,            \* the filesystem before the run (history)
    unreadable,     \* paths whose open()/read() raises
    enforcer,       \* the classifier: [path, content] -> detection result
    documents,      \* result of scan_all_documents
    document_analyses, \* build_migration_plan / find_duplicates: the analyses list
    migration_plan, \* self.migration_plan
    stats,          \* self.stats
    idx,            \* position of the running loop in its list
    backup_dir,     \* TRUE once os.makedirs(backup_dir) has run
    failures,       \* number of I/O failures injected so far
    auto_status,    \* per auto_moves entry: pending/applied/failed (history)
    sugg_status,    \* per suggested_moves entry: pending/applied/skipped/failed (history)
    ref_status,     \* per broken_refs entry: pending/updated/unchanged/failed (history)
    sugg_answer,    \* per suggested_moves entry: the answer given at its prompt (history)
    ref_written,    \* per broken_refs entry: the content its rewrite wrote (history)
    quit_at,        \* position of the suggested entry answered 'q', 0 if none (history)
    log,            \* failure messages printed so far (history)
    rescan,         \* plan of a second organize pass over the resulting tree
    names,          \* names_are_similar: the arguments <<name1, name2>>
    similar         \* names_are_similar: the value returned, "none" before the call

vars == <<pc, args, fs, fs0, unreadable, enforcer, documents, document_analyses,
          migration_plan, stats, idx, backup_dir, failures, auto_status, sugg_status,
          ref_status, sugg_answer, ref_written, quit_at, log, rescan, names, similar>>

-----------------------------------------------------------------------------
(* Bounds of the model *)

\* most documents present in the project tree before the run
MaxDocs == 2
\* most I/O failures (copy, move, rewrite) injected in one run
MaxFailures == 1
\* most characters a failing write puts into its file before it fails, when
\* it does not write them all
MaxWritten == 1

-----------------------------------------------------------------------------
(* Thresholds of the program *)

AutoThreshold == 90
SuggestedThreshold == 70
DetectThreshold == 50
\* detect mode shows documents[:10]
DetectLimit == 10
SimilarLenDiff == 2

-----------------------------------------------------------------------------
(* Text *)

Max(a, b) == IF a >= b THEN a ELSE b
Abs(a) == IF a >= 0 THEN a ELSE 0 - a

\* Python: sub in s
Contains(s, sub) ==
    \E k \in 0..(Len(s) - Len(sub)) : SubSeq(s, k + 1, k + Len(sub)) = sub

\* Python: s.replace(old, new) for a non-empty old: leftmost, non-overlapping
RECURSIVE Replace(_, _, _)
Replace(s, old, new) ==
    IF Len(s) < Len(old) THEN s
    ELSE IF SubSeq(s, 1, Len(old)) = old
         THEN new \o Replace(SubSeq(s, Len(old) + 1, Len(s)), old, new)
         ELSE <<s[1]>> \o Replace(Tail(s), old, new)

\* a string as text: the sequence of its characters
Chars(str) == [k \in 1..Len(str) |-> SubSeq(str, k, k)]

UpperLetters == Chars("ABCDEFGHIJKLMNOPQRSTUVWXYZ")
LowerLetters == Chars("abcdefghijklmnopqrstuvwxyz")

\* uppercase letter -> lowercase letter
LowerOf ==
    [c \in {UpperLetters[k] : k \in 1..Len(UpperLetters)} |->
       LowerLetters[CHOOSE k \in 1..Len(UpperLetters) : UpperLetters[k] = c]]

\* the lowercase of one character: every cased letter of the text of the
\* model (ASCII) is lowered, every other character is kept
LowerChar(c) == IF c \in DOMAIN LowerOf THEN LowerOf[c] ELSE c
\* Python: s.lower()
Lower(s) == [k \in 1..Len(s) |-> LowerChar(s[k])]

RECURSIVE Flatten(_)
Flatten(ss) == IF ss = <<>> THEN <<>> ELSE Head(ss) \o Flatten(Tail(ss))

\* keep the first occurrence of every element
RECURSIVE Dedupe(_)
Dedupe(s) ==
    IF s = <<>> THEN <<>>
    ELSE LET front == Dedupe(SubSeq(s, 1, Len(s) - 1))
             last == s[Len(s)]
         IN IF \E k \in 1..Len(front) : front[k] = last THEN front ELSE Append(front, last)

Range(s) == {s[k] : k \in 1..Len(s)}

-----------------------------------------------------------------------------
(* Paths *)

MdExt == <<".", "m", "d">>
NameA == <<"a">> \o MdExt
NameAB == <<"a", "b">> \o MdExt
NameB == <<"b">> \o MdExt

RootDir == <<>>
DocsDir == <<"project_docs">>
QaDir == <<"project_docs", "qa">>
BackupDir == <<".apm", "backups", "compliance-ts">>

Path(d, n) == [dir |-> d, name |-> n]

\* the value of an absent correct_path
None == Path(<<"None">>, <<>>)

\* os.path.basename
basename(p) == p.name

\* the directory as the text os.path.join builds, character by character
\* (project root written "/")
DirStr(d) ==
    IF d = <<>> THEN <<"/">>
    ELSE Flatten([k \in 1..Len(d) |-> <<"/">> \o Chars(d[k])])

\* the path of a file as the text os.path.join builds
PathStr(p) == Flatten([k \in 1..Len(p.dir) |-> <<"/">> \o Chars(p.dir[k])]) \o <<"/">> \o p.name

BackupPathFlat(p) == Path(BackupDir, p.name)

\* os.path.join(backup_dir, os.path.relpath(src, project_root))
BackupPath(p) == Path(BackupDir \o p.dir, p.name)

IsPrefix(d, e) == Len(d) <= Len(e) /\ SubSeq(e, 1, Len(d)) = d

\* documents the project tree may hold before the run
CandidateDocs == {Path(RootDir, NameA), Path(RootDir, NameAB), Path(DocsDir, NameA)}
\* canonical paths the classifier may resolve
CanonicalPaths == {Path(DocsDir, NameA), Path(QaDir, NameB)}

\* the two orders in which a directory may list two entries: os.walk takes
\* the order of os.scandir, which the filesystem decides
EitherOrder(x, y) == {<<x, y>>, <<y, x>>}

\* os.walk below project_docs: its file, then its sub-directory qa
DocsListing == <<Path(DocsDir, NameA), Path(QaDir, NameB)>>

\* os.walk below the backup directory: its files in the order given, then
\* its sub-directory project_docs
BackupListing(files) == files \o <<Path(BackupDir \o DocsDir, NameA)>>

\* every path of the model in an order os.walk may list it: top-down (the
\* files of a directory before its sub-directories), the files of one
\* directory and its sub-directories in any order
WalkOrders ==
    {root \o Flatten(subdirs) :
       root \in EitherOrder(Path(RootDir, NameA), Path(RootDir, NameAB)),
       subdirs \in UNION {EitherOrder(DocsListing, BackupListing(backup)) :
                            backup \in EitherOrder(Path(BackupDir, NameA),
                                                   Path(BackupDir, NameAB))}}

SkipList == {Chars(".git"), Chars("node_modules"), Chars(".apm/config")}

\* any(skip in root for skip in ['.git', 'node_modules', '.apm/config']):
\* a substring test on the text of the walked directory
SkipDir(d) == \E skip \in SkipList : Contains(DirStr(d), skip)

\* file.endswith('.md')
IsMarkdown(n) == Len(n) >= 3 /\ SubSeq(n, Len(n) - 2, Len(n)) = MdExt

\* os.walk(scan_path) restricted to markdown files outside skipped directories
Walk(files, scan_path, order) ==
    SelectSeq(order,
              LAMBDA p : /\ p \in DOMAIN files
                         /\ IsPrefix(scan_path, p.dir)
                         /\ ~SkipDir(p.dir)
                         /\ IsMarkdown(p.name))

ScanPaths == <<DocsDir, <<".apm", "session_notes">>, RootDir>>

\* scan_all_documents on a filesystem that lists its directories in the
\* given order
scan_all_documents(files, order) ==
    Flatten([k \in 1..Len(ScanPaths) |-> Walk(files, ScanPaths[k], order)])

\* the orders in which os.walk may list the files of a tree
ListingOrders(files) == {SelectSeq(order, LAMBDA p : p \in DOMAIN files) : order \in WalkOrders}

\* the lists scan_all_documents may return for a tree
ScanResults(files) == {scan_all_documents(files, order) : order \in ListingOrders(files)}

\* the files a scan returns, in no order
Scanned(files) == Range(scan_all_documents(files, CHOOSE order \in WalkOrders : TRUE))

-----------------------------------------------------------------------------
(* The classifier (DocumentLocationEnforcer), by its contract *)

DocTypes == {"test_plan", "user_story"}

Detection(t, c, cp) == [doc_type |-> t, confidence |-> c, correct_path |-> cp]

\* what detect_document_type and get_correct_path may answer for one document;
\* correct_path is what get_correct_path answers when called, None for nothing
ClassifierResults ==
    {Detection("uncertain", 30, None), Detection("uncertain", 60, Path(DocsDir, NameA)),
     Detection("test_plan", 49, Path(DocsDir, NameA)),
     Detection("test_plan", 90, None), Detection("user_story", 90, Path(QaDir, NameB))}
    \cup {Detection("test_plan", c, Path(DocsDir, NameA)) : c \in {50, 69, 70, 89, 90}}
    \cup {Detection("test_plan", c, Path(QaDir, NameB)) : c \in {70, 90}}

ClassifierKey(p, content) == [path |-> p, content |-> content]

\* the keys the classifier is asked about when analysing a tree
ClassifierKeys(files, unread) ==
    {ClassifierKey(p, files[p]) : p \in Scanned(files) \ unread}

-----------------------------------------------------------------------------
(* Analysis and triage *)

Analysis(p, err, t, c, cp, nm) ==
    [path |-> p, error |-> err, doc_type |-> t, confidence |-> c,
     correct_path |-> cp, needs_move |-> nm]

analyze_documentAnyConfidence(files, unread, clf, p) ==
    IF p \in unread \/ p \notin DOMAIN files
    THEN Analysis(p, TRUE, "error", 0, None, FALSE)
    ELSE LET det == clf[ClassifierKey(p, files[p])]
             correct_path == IF det.doc_type # "uncertain" THEN det.correct_path ELSE None
         IN Analysis(p, FALSE, det.doc_type, det.confidence, correct_path,
                     IF correct_path # None THEN correct_path # p ELSE FALSE)
analyze_documentUncertain(files, unread, clf, p) ==
    IF p \in unread \/ p \notin DOMAIN files
    THEN Analysis(p, FALSE, "uncertain", 0, None, FALSE)
    ELSE LET det == clf[ClassifierKey(p, files[p])]
             correct_path == IF det.doc_type # "uncertain" /\ det.confidence >= DetectThreshold
                             THEN det.correct_path ELSE None
         IN Analysis(p, FALSE, det.doc_type, det.confidence, correct_path,
                     IF correct_path # None THEN correct_path # p ELSE FALSE)
\* analyze_document: a failed read gives the error analysis, a successful one
\* the classifier's detection and, when detected, its canonical path
analyze_document(files, unread, clf, p) ==
    IF p \in unread \/ p \notin DOMAIN files
    THEN Analysis(p, TRUE, "error", 0, None, FALSE)
    ELSE LET det == clf[ClassifierKey(p, files[p])]
             correct_path == IF det.doc_type # "uncertain" /\ det.confidence >= DetectThreshold
                             THEN det.correct_path ELSE None
         IN Analysis(p, FALSE, det.doc_type, det.confidence, correct_path,
                     IF correct_path # None THEN correct_path # p ELSE FALSE)

BucketStrict(a) ==
    IF a.error THEN "none"
    ELSE IF ~a.needs_move THEN "none"
    ELSE IF a.confidence > AutoThreshold THEN "auto_moves"
    ELSE IF a.confidence > SuggestedThreshold THEN "suggested_moves"
    ELSE "manual_review"

\* the bucket build_migration_plan appends an analysis to ("none": skipped)
Bucket(a) ==
    IF a.error THEN "none"
    ELSE IF ~a.needs_move THEN "none"
    ELSE IF a.confidence >= AutoThreshold THEN "auto_moves"
    ELSE IF a.confidence >= SuggestedThreshold THEN "suggested_moves"
    ELSE "manual_review"

\* the tier analyze_document counts a successful analysis in
Tier(a) ==
    IF a.confidence >= AutoThreshold THEN "high_confidence"
    ELSE IF a.confidence >= SuggestedThreshold THEN "medium_confidence"
    ELSE "low_confidence"

-----------------------------------------------------------------------------
(* Duplicate detection *)

Clean(name) == Replace(Replace(Replace(name, MdExt, <<>>), <<"-">>, <<>>), <<"_">>, <<>>)

Matches(c1, c2) ==
    Cardinality({k \in 1..(IF Len(c1) <= Len(c2) THEN Len(c1) ELSE Len(c2)) : c1[k] = c2[k]})

names_are_similarOneWay(name1, name2) == Contains(Clean(name2), Clean(name1))
\* matches / max(len) > 0.7, evaluated only when neither name contains the other
names_are_similar(name1, name2) ==
    LET clean1 == Clean(name1)
        clean2 == Clean(name2)
    IN \/ Contains(clean2, clean1)
       \/ Contains(clean1, clean2)
       \/ /\ Abs(Len(clean1) - Len(clean2)) <= SimilarLenDiff
          /\ 10 * Matches(clean1, clean2) > 7 * Max(Len(clean1), Len(clean2))

DivisionReachedAlways(clean1, clean2) ==
    Abs(Len(clean1) - Len(clean2)) <= SimilarLenDiff
\* the operands of `or` and `and` are evaluated left to right and only as far
\* as needed: the division sum(...) / max(len(clean1), len(clean2)) is reached
\* when both `in` tests are false and the lengths differ by at most 2
DivisionReached(clean1, clean2) ==
    /\ ~Contains(clean2, clean1)
    /\ ~Contains(clean1, clean2)
    /\ Abs(Len(clean1) - Len(clean2)) <= SimilarLenDiff

\* the call raises ZeroDivisionError: the division is reached with
\* max(len(clean1), len(clean2)) = 0
ZeroDivisionError(name1, name2) ==
    /\ DivisionReached(Clean(name1), Clean(name2))
    /\ Max(Len(Clean(name1)), Len(Clean(name2))) = 0

DuplicateGroup(t, doc1, doc2) == [type |-> t, documents |-> <<doc1, doc2>>, similarity |-> "filename"]

\* the groups of one type, in the order of the nested loops
GroupsOfType(t, docs) ==
    Flatten([i \in 1..Len(docs) |->
        Flatten([j \in 1..Len(docs) |->
            IF j > i /\ names_are_similar(Lower(basename(docs[i].path)),
                                          Lower(basename(docs[j].path)))
            THEN <<DuplicateGroup(t, docs[i], docs[j])>>
            ELSE <<>>])])

find_duplicatesAnyType(analyses) ==
    LET types == Dedupe([k \in 1..Len(analyses) |-> analyses[k].doc_type])
    IN Dedupe(Flatten([k \in 1..Len(types) |->
           LET docs == SelectSeq(analyses, LAMBDA a : a.doc_type = types[k])
           IN IF Len(docs) < 2 THEN <<>> ELSE GroupsOfType(types[k], docs)]))
\* find_duplicates: group by type other than 'uncertain', in each group pair
\* every document with each later one, append a group not yet in the list
find_duplicates(analyses) ==
    LET typed == SelectSeq(analyses, LAMBDA a : a.doc_type # "uncertain")
        types == Dedupe([k \in 1..Len(typed) |-> typed[k].doc_type])
    IN Dedupe(Flatten([k \in 1..Len(types) |->
           LET docs == SelectSeq(typed, LAMBDA a : a.doc_type = types[k])
           IN IF Len(docs) < 2 THEN <<>> ELSE GroupsOfType(types[k], docs)]))

-----------------------------------------------------------------------------
(* Reference scanning *)

ReferenceEdit(f, old, new) == [file |-> f, old_ref |-> old, new_ref |-> new, old_name |-> basename(old)]

\* move_map.items(): one entry per distinct old path, in insertion order,
\* holding the last correct_path assigned to it
MoveMap(moves) ==
    LET keys == Dedupe([k \in 1..Len(moves) |-> moves[k].path])
        last(p) == CHOOSE k \in 1..Len(moves) :
                      /\ moves[k].path = p
                      /\ \A m \in (k + 1)..Len(moves) : moves[m].path # p
    IN [k \in 1..Len(keys) |-> [old |-> keys[k], new |-> moves[last(keys[k])].correct_path]]

find_broken_references(files, unread, analyses, moves) ==
    LET move_map == MoveMap(moves)
    IN Flatten([k \in 1..Len(analyses) |->
           LET f == analyses[k].path
           IN IF f \in unread \/ f \notin DOMAIN files THEN <<>>
              ELSE Flatten([m \in 1..Len(move_map) |->
                       IF \/ Contains(files[f], basename(move_map[m].old))
                          \/ Contains(files[f], PathStr(move_map[m].old))
                       THEN <<ReferenceEdit(f, move_map[m].old, move_map[m].new)>>
                       ELSE <<>>])])

-----------------------------------------------------------------------------
(* Plan construction *)

InBucket(analyses, b) == SelectSeq(analyses, LAMBDA a : Bucket(a) = b)

\* the analyses list: one analyze_document result per scanned entry, in scan order
Analyses(files, unread, clf, docs) ==
    [k \in 1..Len(docs) |-> analyze_document(files, unread, clf, docs[k])]

build_migration_planAllBuckets(files, unread, clf, docs) ==
    LET analyses == [k \in 1..Len(docs) |-> analyze_document(files, unread, clf, docs[k])]
        auto == InBucket(analyses, "auto_moves")
        suggested == InBucket(analyses, "suggested_moves")
        manual == InBucket(analyses, "manual_review")
    IN [auto_moves |-> auto,
        suggested_moves |-> suggested,
        manual_review |-> manual,
        duplicates |-> find_duplicates(analyses),
        broken_refs |-> find_broken_references(files, unread, analyses,
                                               auto \o suggested \o manual)]
\* build_migration_plan: analyze, distribute over the buckets, then
\* find_duplicates and find_broken_references (moves: auto + suggested)
build_migration_plan(files, unread, clf, docs) ==
    LET analyses == [k \in 1..Len(docs) |-> analyze_document(files, unread, clf, docs[k])]
        auto == InBucket(analyses, "auto_moves")
        suggested == InBucket(analyses, "suggested_moves")
    IN [auto_moves |-> auto,
        suggested_moves |-> suggested,
        manual_review |-> InBucket(analyses, "manual_review"),
        duplicates |-> find_duplicates(analyses),
        broken_refs |-> find_broken_references(files, unread, analyses, auto \o suggested)]

EmptyPlan ==
    [auto_moves |-> <<>>, suggested_moves |-> <<>>, manual_review |-> <<>>,
     duplicates |-> <<>>, broken_refs |-> <<>>]

CountTier(analyses, t) == Len(SelectSeq(analyses, LAMBDA a : ~a.error /\ Tier(a) = t))

\* self.stats after scan_all_documents and build_migration_plan
\* (docs: the scanned list; analyses: what analyze_document returned for
\* them; duplicates: the groups find_duplicates appended)
PlanStats(docs, analyses, duplicates) ==
    [scanned |-> Len(docs),
     detected |-> Len(SelectSeq(analyses, LAMBDA a : ~a.error)),
     high_confidence |-> CountTier(analyses, "high_confidence"),
     medium_confidence |-> CountTier(analyses, "medium_confidence"),
     low_confidence |-> CountTier(analyses, "low_confidence"),
     moved |-> 0, renamed |-> 0,
     duplicates_found |-> Len(duplicates),
     references_updated |-> 0]

InitialStats ==
    [scanned |-> 0, detected |-> 0, high_confidence |-> 0, medium_confidence |-> 0,
     low_confidence |-> 0, moved |-> 0, renamed |-> 0, duplicates_found |-> 0,
     references_updated |-> 0]

-----------------------------------------------------------------------------
(* Initial states: a project tree, a command line and a classifier *)

ContentChoices == {<<"z">>, <<"s", "e", "e", " ">> \o NameA}

Args == {[mode |-> "organize", dry_run |-> FALSE, auto |-> TRUE],
         [mode |-> "organize", dry_run |-> FALSE, auto |-> FALSE],
         [mode |-> "organize", dry_run |-> TRUE, auto |-> FALSE],
         [mode |-> "organize", dry_run |-> TRUE, auto |-> TRUE],
         [mode |-> "detect", dry_run |-> FALSE, auto |-> FALSE],
         [mode |-> "report", dry_run |-> FALSE, auto |-> FALSE],
         [mode |-> "registry", dry_run |-> FALSE, auto |-> FALSE]}

Trees == UNION {[docs -> ContentChoices] : docs \in {d \in SUBSET CandidateDocs : Cardinality(d) <= MaxDocs}}

Init ==
    /\ pc = "start"
    /\ args \in Args
    /\ fs \in Trees
    /\ fs0 = fs
    /\ unreadable \in SUBSET DOMAIN fs
    /\ enforcer \in [ClassifierKeys(fs, unreadable) -> ClassifierResults]
    /\ documents = <<>>
    /\ document_analyses = <<>>
    /\ migration_plan = EmptyPlan
    /\ stats = InitialStats
    /\ idx = 0
    /\ backup_dir = FALSE
    /\ failures = 0
    /\ auto_status = <<>>
    /\ sugg_status = <<>>
    /\ ref_status = <<>>
    /\ sugg_answer = <<>>
    /\ ref_written = <<>>
    /\ quit_at = 0
    /\ log = <<>>
    /\ rescan = EmptyPlan
    /\ names = <<>>
    /\ similar = "none"

-----------------------------------------------------------------------------
(* The stages of execute_migration *)

Pending(list) == [k \in 1..Len(list) |-> "pending"]

BackupList == migration_plan.auto_moves \o migration_plan.suggested_moves

Position(p, k) == [pc |-> p, idx |-> k]

\* where the run continues once the suggested bucket is left
AfterSuggested ==
    IF migration_plan.broken_refs # <<>> THEN "update_references" ELSE "complete"

AfterAutoAnyMode ==
    IF migration_plan.suggested_moves # <<>> THEN "suggested_moves" ELSE AfterSuggested
\* where the run continues once the auto bucket is done: the suggested bucket
\* is executed only when mode is not 'auto'
AfterAuto ==
    IF ~args.auto /\ migration_plan.suggested_moves # <<>> THEN "suggested_moves" ELSE AfterSuggested

\* where the run continues once the backup is complete
AfterBackup ==
    IF migration_plan.auto_moves # <<>> THEN "auto_moves" ELSE AfterAuto

\* where the run continues once create_backup has made its directory
AfterMakedirs == IF BackupList # <<>> THEN "backup" ELSE AfterBackup

\* the next iteration of a for loop over list, or the stage after it
Advance(list, here, after) ==
    IF idx = Len(list) THEN Position(after, 1) ELSE Position(here, idx + 1)

BackupFailureBreak == Position(AfterBackup, 1)
\* a failed copy in create_backup: raised outside the try of execute_migration
BackupFailure == Position("crashed", idx)

MoveFailureBreak(list, here, after) == Position(after, 1)
\* a failed move: caught inside the loop of execute_moves, which goes on
MoveFailure(list, here, after) == Advance(list, here, after)

QuitContinue == Advance(migration_plan.suggested_moves, "suggested_moves", AfterSuggested)
\* the answer 'q': break out of the loop of execute_moves
Quit == Position(AfterSuggested, 1)

ReferencePresentFullPath(content, ref) == Contains(content, PathStr(ref.old_ref))
\* update_references: old_name in content
ReferencePresent(content, ref) == Contains(content, basename(ref.old_ref))

\* shutil.copy2(src, dst)
FsCopy(files, src, dst) ==
    [p \in DOMAIN files \cup {dst} |-> IF p = dst THEN files[src] ELSE files[p]]

\* shutil.move(src, dst): the file leaves src and replaces whatever dst held
\* open(dst, "w") and a write of text: dst is created or truncated
FsWrite(files, dst, text) ==
    [p \in DOMAIN files \cup {dst} |-> IF p = dst THEN text ELSE files[p]]

\* what a write of text that ends in an exception can leave in its file:
\* the first characters of text (none of them: the file was only created or
\* truncated), or all of text when the error is raised after the last write
Written(text) ==
    {SubSeq(text, 1, n) : n \in 0..(IF Len(text) < MaxWritten THEN Len(text) ELSE MaxWritten)}
      \cup {text}

FsMove(files, src, dst) ==
    [p \in (DOMAIN files \ {src}) \cup {dst} |-> IF p = dst THEN files[src] ELSE files[p]]

Message(kind, p) == [kind |-> kind, path |-> p]

-----------------------------------------------------------------------------
(* Actions *)

\* main, mode organize: scan, build the plan, print it, start the migration
main_organize ==
    /\ pc = "start"
    /\ args.mode = "organize"
    /\ documents' \in ScanResults(fs)
    /\ IF documents' = <<>>
       THEN /\ pc' = "no_documents"
            /\ stats' = [stats EXCEPT !.scanned = 0]
            /\ UNCHANGED <<document_analyses, migration_plan, auto_status,
                           sugg_status, ref_status, sugg_answer, ref_written>>
       ELSE /\ document_analyses' = Analyses(fs, unreadable, enforcer, documents')
            /\ migration_plan' = build_migration_plan(fs, unreadable, enforcer, documents')
            /\ stats' = PlanStats(documents', document_analyses', migration_plan'.duplicates)
            /\ auto_status' = Pending(migration_plan'.auto_moves)
            /\ sugg_status' = Pending(migration_plan'.suggested_moves)
            /\ ref_status' = Pending(migration_plan'.broken_refs)
            /\ sugg_answer' = [k \in 1..Len(migration_plan'.suggested_moves) |-> "none"]
            /\ ref_written' = [k \in 1..Len(migration_plan'.broken_refs) |-> <<>>]
            /\ pc' = IF stats'.detected = 0 THEN "crashed"
                     ELSE IF args.dry_run THEN "dry_run_done"
                     ELSE "confirm"
    /\ UNCHANGED <<args, names, similar, fs, fs0, unreadable, enforcer, idx, backup_dir,
                   failures, quit_at, log, rescan>>

\* documents[:10]
Shown(docs) == SubSeq(docs, 1, IF Len(docs) < DetectLimit THEN Len(docs) ELSE DetectLimit)

\* the analyses the detect loop makes: it ends with the first error analysis
UntilError(all) ==
    LET errors == {k \in 1..Len(all) : all[k].error}
    IN IF errors = {} THEN all
       ELSE SubSeq(all, 1, CHOOSE k \in errors : \A j \in errors : k <= j)

\* self.stats after scan_all_documents and the given calls of analyze_document
DetectStats(docs, analyses) ==
    [InitialStats EXCEPT !.scanned = Len(docs),
                         !.detected = Len(SelectSeq(analyses, LAMBDA a : ~a.error)),
                         !.high_confidence = CountTier(analyses, "high_confidence"),
                         !.medium_confidence = CountTier(analyses, "medium_confidence"),
                         !.low_confidence = CountTier(analyses, "low_confidence")]

\* main, mode detect: analyze the first DetectLimit scanned documents and print
\* each result; the print of analysis['needs_move'] raises KeyError on an
\* error analysis, which has no such key
main_detect ==
    /\ pc = "start"
    /\ args.mode = "detect"
    /\ documents' \in ScanResults(fs)
    /\ document_analyses' = UntilError(Analyses(fs, unreadable, enforcer, Shown(documents')))
    /\ stats' = DetectStats(documents', document_analyses')
    /\ pc' = IF \E k \in 1..Len(document_analyses') : document_analyses'[k].error
             THEN "crashed" ELSE "detect_done"
    /\ UNCHANGED <<args, names, similar, fs, fs0, unreadable, enforcer, migration_plan, idx,
                   backup_dir, failures, auto_status, sugg_status, ref_status, sugg_answer,
                   ref_written, quit_at, log, rescan>>

main_reportExecutes ==
    /\ pc = "start"
    /\ args.mode = "report"
    /\ documents' \in ScanResults(fs)
    /\ document_analyses' = Analyses(fs, unreadable, enforcer, documents')
    /\ migration_plan' = build_migration_plan(fs, unreadable, enforcer, documents')
    /\ stats' = PlanStats(documents', document_analyses', migration_plan'.duplicates)
    /\ auto_status' = Pending(migration_plan'.auto_moves)
    /\ sugg_status' = Pending(migration_plan'.suggested_moves)
    /\ ref_status' = Pending(migration_plan'.broken_refs)
    /\ sugg_answer' = [k \in 1..Len(migration_plan'.suggested_moves) |-> "none"]
    /\ ref_written' = [k \in 1..Len(migration_plan'.broken_refs) |-> <<>>]
    /\ pc' = "confirm"
    /\ UNCHANGED <<args, names, similar, fs, fs0, unreadable, enforcer, idx, backup_dir,
                   failures, quit_at, log, rescan>>
\* main, mode report: scan, build the plan, print the statistics
main_report ==
    /\ pc = "start"
    /\ args.mode = "report"
    /\ documents' \in ScanResults(fs)
    /\ document_analyses' = Analyses(fs, unreadable, enforcer, documents')
    /\ migration_plan' = build_migration_plan(fs, unreadable, enforcer, documents')
    /\ stats' = PlanStats(documents', document_analyses', migration_plan'.duplicates)
    /\ pc' = "report_done"
    /\ UNCHANGED <<args, names, similar, fs, fs0, unreadable, enforcer, idx, backup_dir,
                   failures, auto_status, sugg_status, ref_status, sugg_answer,
                   ref_written, quit_at, log, rescan>>

\* main, mode registry: print the registry, no scan and no classification
main_registry ==
    /\ pc = "start"
    /\ args.mode = "registry"
    /\ pc' = "registry_done"
    /\ UNCHANGED <<args, names, similar, fs, fs0, unreadable, enforcer, documents,
                   document_analyses, migration_plan, stats, idx, backup_dir, failures,
                   auto_status, sugg_status, ref_status, sugg_answer, ref_written,
                   quit_at, log, rescan>>

confirm_migrationEmptyPlan ==
    /\ pc = "confirm"
    /\ \E response \in {"y", "n", "EOF"} :
         LET prompted == ~args.auto
             confirmed == IF args.auto THEN TRUE
                          ELSE response = "y"
         IN IF prompted /\ response = "EOF"
            THEN /\ pc' = "crashed"
                 /\ UNCHANGED <<backup_dir, idx>>
            ELSE IF confirmed
            THEN /\ backup_dir' = TRUE
                 /\ pc' = AfterMakedirs
                 /\ idx' = 1
            ELSE /\ pc' = "declined"
                 /\ UNCHANGED <<backup_dir, idx>>
    /\ UNCHANGED <<args, names, similar, fs, fs0, unreadable, enforcer, documents, document_analyses,
                   migration_plan, stats,
                   failures, auto_status, sugg_status, ref_status, sugg_answer,
                   ref_written, quit_at, log, rescan>>
\* execute_migration up to os.makedirs(backup_dir): mode auto, or
\* confirm_migration; input() returns the answer or, with stdin at end of file,
\* raises EOFError, which nothing catches here
confirm_migration ==
    /\ pc = "confirm"
    /\ \E response \in {"y", "n", "EOF"} :
         LET prompted == ~args.auto /\ BackupList # <<>>
             confirmed == IF args.auto THEN TRUE
                          ELSE IF BackupList = <<>> THEN FALSE
                          ELSE response = "y"
         IN IF prompted /\ response = "EOF"
            THEN /\ pc' = "crashed"
                 /\ UNCHANGED <<backup_dir, idx>>
            ELSE IF confirmed
            THEN /\ backup_dir' = TRUE
                 /\ pc' = AfterMakedirs
                 /\ idx' = 1
            ELSE /\ pc' = "declined"
                 /\ UNCHANGED <<backup_dir, idx>>
    /\ UNCHANGED <<args, names, similar, fs, fs0, unreadable, enforcer, documents, document_analyses,
                   migration_plan, stats,
                   failures, auto_status, sugg_status, ref_status, sugg_answer,
                   ref_written, quit_at, log, rescan>>

\* create_backup: one iteration of the copy loop; shutil.copy2 that raises
\* has written nothing, or has created the copy and written some of it
create_backup ==
    /\ pc = "backup"
    /\ LET src == BackupList[idx].path
           next == Advance(BackupList, "backup", AfterBackup)
       IN \E ok \in BOOLEAN :
            /\ ok => src \in DOMAIN fs
            /\ ~ok => (src \notin DOMAIN fs \/ failures < MaxFailures)
            /\ IF ok
               THEN /\ fs' = FsCopy(fs, src, BackupPath(src))
                    /\ pc' = next.pc
                    /\ idx' = next.idx
                    /\ UNCHANGED <<failures, log>>
               ELSE /\ pc' = BackupFailure.pc
                    /\ idx' = BackupFailure.idx
                    /\ failures' = failures + 1
                    /\ log' = Append(log, Message("backup", src))
                    /\ \/ UNCHANGED fs
                       \/ /\ src \in DOMAIN fs
                          /\ \E written \in Written(fs[src]) :
                               fs' = FsWrite(fs, BackupPath(src), written)
    /\ UNCHANGED <<args, names, similar, fs0, unreadable, enforcer, documents, document_analyses,
                   migration_plan, stats,
                   backup_dir, auto_status, sugg_status, ref_status, sugg_answer,
                   ref_written, quit_at, rescan>>

TryMoveAlwaysRenamed(analysis, ok) ==
    LET src == analysis.path
        dst == analysis.correct_path
    IN /\ ok => src \in DOMAIN fs
       /\ ~ok => (src \notin DOMAIN fs \/ failures < MaxFailures)
       /\ IF ok
          THEN /\ fs' = FsMove(fs, src, dst)
               /\ unreadable' = unreadable \ {dst}
               /\ stats' = [stats EXCEPT
                              !.renamed = @ + 1,
                              !.moved = @ + 1]
               /\ UNCHANGED <<failures, log>>
          ELSE /\ failures' = IF src \in DOMAIN fs THEN failures + 1 ELSE failures
               /\ log' = Append(log, Message("move", src))
               /\ \/ UNCHANGED <<fs, unreadable>>
                  \/ /\ src \in DOMAIN fs
                     /\ \E written \in Written(fs[src]) : fs' = FsWrite(fs, dst, written)
                     /\ UNCHANGED unreadable
                  \/ /\ src \in DOMAIN fs
                     /\ fs' = FsWrite(fs, dst, fs[src])
                     /\ unreadable' = unreadable \ {dst}
               /\ UNCHANGED stats
\* the try block of execute_moves for one entry; ok: no exception was raised.
\* shutil.move that raises has changed nothing, or (os.rename refused) has
\* copied some or all of the source to dst and left the source in place:
\* copy2 writes into dst and copies the mode of the source only after the
\* content, so a dst that could not be read stays so when the copy fails, and
\* can be read when the copy was complete and os.unlink of the source failed
TryMove(analysis, ok) ==
    LET src == analysis.path
        dst == analysis.correct_path
    IN /\ ok => src \in DOMAIN fs
       /\ ~ok => (src \notin DOMAIN fs \/ failures < MaxFailures)
       /\ IF ok
          THEN /\ fs' = FsMove(fs, src, dst)
               /\ unreadable' = unreadable \ {dst}
               /\ stats' = [stats EXCEPT
                              !.renamed = IF basename(src) # basename(dst) THEN @ + 1 ELSE @,
                              !.moved = @ + 1]
               /\ UNCHANGED <<failures, log>>
          ELSE /\ failures' = IF src \in DOMAIN fs THEN failures + 1 ELSE failures
               /\ log' = Append(log, Message("move", src))
               /\ \/ UNCHANGED <<fs, unreadable>>
                  \/ /\ src \in DOMAIN fs
                     /\ \E written \in Written(fs[src]) : fs' = FsWrite(fs, dst, written)
                     /\ UNCHANGED unreadable
                  \/ /\ src \in DOMAIN fs
                     /\ fs' = FsWrite(fs, dst, fs[src])
                     /\ unreadable' = unreadable \ {dst}
               /\ UNCHANGED stats

execute_moves_autoUpdatesPlan ==
    /\ pc = "auto_moves"
    /\ \E ok \in BOOLEAN :
         LET next == IF ok THEN Advance(migration_plan.auto_moves, "auto_moves", AfterAuto)
                     ELSE MoveFailure(migration_plan.auto_moves, "auto_moves", AfterAuto)
         IN /\ TryMove(migration_plan.auto_moves[idx], ok)
            /\ auto_status' = [auto_status EXCEPT ![idx] = IF ok THEN "applied" ELSE "failed"]
            /\ migration_plan' =
                 IF ok THEN [migration_plan EXCEPT
                              !.auto_moves[idx].path = migration_plan.auto_moves[idx].correct_path]
                 ELSE migration_plan
            /\ pc' = next.pc
            /\ idx' = next.idx
    /\ UNCHANGED <<args, names, similar, fs0, enforcer, documents, document_analyses,
                   backup_dir,
                   sugg_status, ref_status, sugg_answer, ref_written, quit_at, rescan>>
\* execute_moves(auto_moves, auto=True): one iteration
execute_moves_auto ==
    /\ pc = "auto_moves"
    /\ \E ok \in BOOLEAN :
         LET next == IF ok THEN Advance(migration_plan.auto_moves, "auto_moves", AfterAuto)
                     ELSE MoveFailure(migration_plan.auto_moves, "auto_moves", AfterAuto)
         IN /\ TryMove(migration_plan.auto_moves[idx], ok)
            /\ auto_status' = [auto_status EXCEPT ![idx] = IF ok THEN "applied" ELSE "failed"]
            /\ pc' = next.pc
            /\ idx' = next.idx
    /\ UNCHANGED <<args, names, similar, fs0, enforcer, documents, document_analyses,
                   migration_plan, backup_dir,
                   sugg_status, ref_status, sugg_answer, ref_written, quit_at, rescan>>

\* execute_moves(suggested_moves, auto=False): one iteration, prompt included;
\* the EOFError of input() leaves execute_moves and is caught by the except
\* clause of execute_migration, which prints the failure and returns
execute_moves_suggested ==
    /\ pc = "suggested_moves"
    /\ \E response \in {"y", "n", "q", "EOF"} :
         /\ sugg_answer' = [sugg_answer EXCEPT ![idx] = response]
         /\ IF response = "EOF"
            THEN /\ pc' = "migration_failed"
                 /\ log' = Append(log, Message("migration", None))
                 /\ UNCHANGED <<fs, unreadable, stats, failures, sugg_status, quit_at, idx>>
            ELSE IF response = "q"
            THEN /\ quit_at' = idx
                 /\ pc' = Quit.pc
                 /\ idx' = Quit.idx
                 /\ UNCHANGED <<fs, unreadable, stats, failures, log, sugg_status>>
            ELSE IF response # "y"
            THEN LET next == Advance(migration_plan.suggested_moves, "suggested_moves",
                                     AfterSuggested)
                 IN /\ sugg_status' = [sugg_status EXCEPT ![idx] = "skipped"]
                    /\ pc' = next.pc
                    /\ idx' = next.idx
                    /\ UNCHANGED <<fs, unreadable, stats, failures, log, quit_at>>
            ELSE \E ok \in BOOLEAN :
                   LET next == IF ok
                               THEN Advance(migration_plan.suggested_moves,
                                            "suggested_moves", AfterSuggested)
                               ELSE MoveFailure(migration_plan.suggested_moves,
                                                "suggested_moves", AfterSuggested)
                   IN /\ TryMove(migration_plan.suggested_moves[idx], ok)
                      /\ sugg_status' = [sugg_status EXCEPT
                                           ![idx] = IF ok THEN "applied" ELSE "failed"]
                      /\ pc' = next.pc
                      /\ idx' = next.idx
                      /\ UNCHANGED quit_at
    /\ UNCHANGED <<args, names, similar, fs0, enforcer, documents, document_analyses,
                   migration_plan, backup_dir,
                   auto_status, ref_status, ref_written, rescan>>

update_referencesAbort ==
    /\ pc = "update_references"
    /\ LET ref == migration_plan.broken_refs[idx]
           old_name == basename(ref.old_ref)
           new_name == basename(ref.new_ref)
           readable == ref.file \in DOMAIN fs /\ ref.file \notin unreadable
           last == idx = Len(migration_plan.broken_refs)
       IN \E ok \in BOOLEAN :
            /\ ok => readable
            /\ ~ok => (~readable \/ failures < MaxFailures)
            /\ IF ok
               THEN /\ IF ReferencePresent(fs[ref.file], ref)
                       THEN /\ fs' = [fs EXCEPT ![ref.file] = Replace(@, old_name, new_name)]
                            /\ stats' = [stats EXCEPT !.references_updated = @ + 1]
                            /\ ref_status' = [ref_status EXCEPT ![idx] = "updated"]
                            /\ ref_written' = [ref_written EXCEPT
                                                 ![idx] = Replace(fs[ref.file], old_name, new_name)]
                       ELSE /\ ref_status' = [ref_status EXCEPT ![idx] = "unchanged"]
                            /\ UNCHANGED <<fs, stats, ref_written>>
                    /\ pc' = IF last THEN "complete" ELSE "update_references"
                    /\ idx' = IF last THEN 0 ELSE idx + 1
                    /\ UNCHANGED <<failures, log>>
               ELSE /\ ref_status' = [ref_status EXCEPT ![idx] = "failed"]
                    /\ failures' = IF readable THEN failures + 1 ELSE failures
                    /\ log' = Append(log, Message("reference", ref.file))
                    /\ pc' = "complete"
                    /\ idx' = 0
                    /\ \/ UNCHANGED fs
                       \/ /\ readable
                          /\ ReferencePresent(fs[ref.file], ref)
                          /\ \E written \in Written(Replace(fs[ref.file], old_name, new_name)) :
                               fs' = FsWrite(fs, ref.file, written)
                    /\ UNCHANGED <<stats, ref_written>>
    /\ UNCHANGED <<args, names, similar, fs0, unreadable, enforcer, documents, document_analyses,
                   migration_plan, backup_dir,
                   auto_status, sugg_status, sugg_answer, quit_at, rescan>>
\* update_references: one iteration; a failure leaves the file as it was
\* (the read or the open for writing failed) or, the file being opened with
\* "w", holding some or all of the new text
update_references ==
    /\ pc = "update_references"
    /\ LET ref == migration_plan.broken_refs[idx]
           old_name == basename(ref.old_ref)
           new_name == basename(ref.new_ref)
           readable == ref.file \in DOMAIN fs /\ ref.file \notin unreadable
       IN \E ok \in BOOLEAN :
            /\ ok => readable
            /\ ~ok => (~readable \/ failures < MaxFailures)
            /\ IF ok
               THEN /\ IF ReferencePresent(fs[ref.file], ref)
                       THEN /\ fs' = [fs EXCEPT ![ref.file] = Replace(@, old_name, new_name)]
                            /\ stats' = [stats EXCEPT !.references_updated = @ + 1]
                            /\ ref_status' = [ref_status EXCEPT ![idx] = "updated"]
                            /\ ref_written' = [ref_written EXCEPT
                                                 ![idx] = Replace(fs[ref.file], old_name, new_name)]
                       ELSE /\ ref_status' = [ref_status EXCEPT ![idx] = "unchanged"]
                            /\ UNCHANGED <<fs, stats, ref_written>>
                    /\ UNCHANGED <<failures, log>>
               ELSE /\ ref_status' = [ref_status EXCEPT ![idx] = "failed"]
                    /\ failures' = IF readable THEN failures + 1 ELSE failures
                    /\ log' = Append(log, Message("reference", ref.file))
                    /\ \/ UNCHANGED fs
                       \/ /\ readable
                          /\ ReferencePresent(fs[ref.file], ref)
                          /\ \E written \in Written(Replace(fs[ref.file], old_name, new_name)) :
                               fs' = FsWrite(fs, ref.file, written)
                    /\ UNCHANGED <<stats, ref_written>>
    /\ pc' = IF idx = Len(migration_plan.broken_refs) THEN "complete" ELSE "update_references"
    /\ idx' = IF idx = Len(migration_plan.broken_refs) THEN 0 ELSE idx + 1
    /\ UNCHANGED <<args, names, similar, fs0, unreadable, enforcer, documents, document_analyses,
                   migration_plan, backup_dir,
                   auto_status, sugg_status, sugg_answer, quit_at, rescan>>

Next ==
    \/ main_organize
    \/ main_detect
    \/ main_report
    \/ main_registry
    \/ confirm_migration
    \/ create_backup
    \/ execute_moves_auto
    \/ execute_moves_suggested
    \/ update_references

Spec == Init /\ [][Next]_vars

-----------------------------------------------------------------------------
(* A second organize pass over the tree a completed run leaves behind *)

\* most documents in the tree of a run that is followed by a second pass
MaxDocsAgain == 1

\* main, mode organize, run again: fresh scan and plan with the same classifier,
\* which is asked about every (path, content) it has not seen before
main_organize_again ==
    /\ pc = "complete"
    /\ LET new == ClassifierKeys(fs, unreadable) \ DOMAIN enforcer
       IN \E answers \in [new -> ClassifierResults] :
            LET clf == [key \in DOMAIN enforcer \cup new |->
                          IF key \in DOMAIN enforcer THEN enforcer[key] ELSE answers[key]]
            IN /\ enforcer' = clf
               /\ \E docs \in ScanResults(fs) :
                    rescan' = build_migration_plan(fs, unreadable, clf, docs)
    /\ pc' = "rescanned"
    /\ UNCHANGED <<args, names, similar, fs, fs0, unreadable, documents, document_analyses,
                   migration_plan, stats, idx,
                   backup_dir, failures, auto_status, sugg_status, ref_status,
                   sugg_answer, ref_written, quit_at, log>>

InitAgain == Init /\ Cardinality(DOMAIN fs) <= MaxDocsAgain /\ ~args.dry_run

NextAgain == Next \/ main_organize_again

SpecAgain == InitAgain /\ [][NextAgain]_vars

-----------------------------------------------------------------------------
(* The duplicate detector and the filename comparison on their own inputs *)

\* no command is running: every variable of the organize run at rest
AtRest ==
    /\ args = [mode |-> "none", dry_run |-> FALSE, auto |-> FALSE]
    /\ fs = <<>>
    /\ fs0 = <<>>
    /\ unreadable = {}
    /\ enforcer = <<>>
    /\ documents = <<>>
    /\ stats = InitialStats
    /\ idx = 0
    /\ backup_dir = FALSE
    /\ failures = 0
    /\ auto_status = <<>>
    /\ sugg_status = <<>>
    /\ ref_status = <<>>
    /\ sugg_answer = <<>>
    /\ ref_written = <<>>
    /\ quit_at = 0
    /\ log = <<>>
    /\ rescan = EmptyPlan

\* longest analyses list handed to find_duplicates on its own
MaxAnalyses == 3

NameUpperA == <<"A">> \o MdExt

\* paths of the analyses: a.md ~ ab.md ~ b.md but not a.md ~ b.md; A.md is
\* a.md once lowered; project_docs/a.md shares its basename with a.md
DuplicatePaths ==
    {Path(RootDir, NameA), Path(RootDir, NameAB), Path(RootDir, NameB),
     Path(RootDir, NameUpperA), Path(DocsDir, NameA)}

DuplicateTypes == {"test_plan", "user_story", "uncertain", "error"}

\* the analysis of path p when its detected type is t
TypedAnalysis(p, t) ==
    IF t = "error" THEN Analysis(p, TRUE, "error", 0, None, FALSE)
    ELSE IF t = "uncertain" THEN Analysis(p, FALSE, t, 30, None, FALSE)
    ELSE Analysis(p, FALSE, t, AutoThreshold, None, FALSE)

\* orders in which a scan can list paths: a path below project_docs possibly
\* twice (it is walked under two scan paths), any other path once
DuplicateOrders ==
    {o \in UNION {[1..m -> DuplicatePaths] : m \in 1..MaxAnalyses} :
       \A i, j \in DOMAIN o :
         i < j /\ o[i] = o[j] =>
           /\ IsPrefix(DocsDir, o[i].dir)
           /\ \A h \in DOMAIN o : o[h] = o[i] => h \in {i, j}}

\* the analyses list of a scan order: one detected type per path
InitDuplicates ==
    /\ pc = "find_duplicates"
    /\ \E o \in DuplicateOrders :
         \E typing \in [Range(o) -> DuplicateTypes] :
           document_analyses = [k \in DOMAIN o |-> TypedAnalysis(o[k], typing[o[k]])]
    /\ migration_plan = EmptyPlan
    /\ names = <<>>
    /\ similar = "none"
    /\ AtRest

\* find_duplicates(analyses): fills migration_plan['duplicates'] and counts
find_duplicates_call ==
    /\ pc = "find_duplicates"
    /\ migration_plan' = [migration_plan EXCEPT !.duplicates = find_duplicates(document_analyses)]
    /\ stats' = [stats EXCEPT !.duplicates_found = Len(find_duplicates(document_analyses))]
    /\ pc' = "duplicates_found"
    /\ UNCHANGED <<args, names, similar, fs, fs0, unreadable, enforcer, documents,
                   document_analyses, idx, backup_dir, failures, auto_status, sugg_status,
                   ref_status, sugg_answer, ref_written, quit_at, log, rescan>>

NextDuplicates == find_duplicates_call

SpecDuplicates == InitDuplicates /\ [][NextDuplicates]_vars

\* most pieces in the stem of a composed name
MaxPieces == 2
\* most letters in the stem of a plain name
MaxLetters == 4

\* what stems are composed of: letters, the separators, the extension text
Pieces == {<<"a">>, <<"b">>, <<"-">>, <<"_">>, MdExt}

Letters == {"a", "b"}

RECURSIVE Repeat(_, _)
Repeat(c, n) == IF n = 0 THEN <<>> ELSE <<c>> \o Repeat(c, n - 1)

\* stems at the limits of the comparison: 7 of 10 and 8 of 10 aligned
\* characters equal, and 10 of 14 equal with a length difference of 3
BoundaryStems ==
    {Repeat("a", 10), Repeat("a", 7) \o Repeat("b", 3), Repeat("a", 8) \o Repeat("b", 2),
     Repeat("a", 10) \o <<"b">>, Repeat("a", 14), Repeat("a", 10) \o <<"b", "a", "a">>}

Stems ==
    {Flatten(s) : s \in UNION {[1..n -> Pieces] : n \in 0..MaxPieces}}
      \cup UNION {[1..n -> Letters] : n \in 0..MaxLetters}
      \cup BoundaryStems

\* basenames find_duplicates passes: lowered names of scanned *.md files
SimilarNames == {stem \o MdExt : stem \in Stems}

InitNames ==
    /\ pc = "names_are_similar"
    /\ names \in SimilarNames \X SimilarNames
    /\ similar = "none"
    /\ document_analyses = <<>>
    /\ migration_plan = EmptyPlan
    /\ AtRest

\* one call names_are_similar(name1, name2)
names_are_similar_call ==
    /\ pc = "names_are_similar"
    /\ IF ZeroDivisionError(names[1], names[2])
       THEN /\ pc' = "crashed"
            /\ UNCHANGED similar
       ELSE /\ similar' = names_are_similar(names[1], names[2])
            /\ pc' = "returned"
    /\ UNCHANGED <<args, names, fs, fs0, unreadable, enforcer, documents, document_analyses,
                   migration_plan, stats, idx, backup_dir, failures, auto_status,
                   sugg_status, ref_status, sugg_answer, ref_written, quit_at, log, rescan>>

NextNames == names_are_similar_call

SpecNames == InitNames /\ [][NextNames]_vars

-----------------------------------------------------------------------------
(* The reference rewrite on its own inputs *)

\* most words in the text of the referencing file
MaxWords == 2

NameBA == <<"b", "a">> \o MdExt
NameIndex == <<"i">> \o MdExt

\* old and new basenames: ba.md contains a.md, the others do not contain
\* one another
RewriteNames == {NameA, NameB, NameAB, NameBA}

\* the referencing file
RewriteFile == Path(RootDir, NameIndex)

RECURSIVE Join(_)
Join(words) ==
    IF words = <<>> THEN <<>>
    ELSE IF Len(words) = 1 THEN words[1]
    ELSE words[1] \o <<" ">> \o Join(Tail(words))

\* texts of the referencing file: up to MaxWords words, each a basename or "z"
RewriteContents ==
    {Join(w) : w \in UNION {[1..n -> RewriteNames \cup {<<"z">>}] : n \in 1..MaxWords}}

\* the state at the start of update_references with one ReferenceEdit
\* planned: the document was moved from old to new, the file holds content
InitRewrite ==
    /\ pc = "update_references"
    /\ idx = 1
    /\ args = [mode |-> "organize", dry_run |-> FALSE, auto |-> TRUE]
    /\ \E old \in RewriteNames, new \in RewriteNames, content \in RewriteContents :
         LET moved == Analysis(Path(RootDir, old), FALSE, "test_plan", AutoThreshold,
                               Path(QaDir, new), TRUE)
         IN /\ names = <<old, new>>
            /\ fs0 = (RewriteFile :> content) @@ (Path(RootDir, old) :> <<"z">>)
            /\ fs = (RewriteFile :> content) @@ (Path(QaDir, new) :> <<"z">>)
                      @@ (BackupPath(Path(RootDir, old)) :> <<"z">>)
            /\ migration_plan =
                 [EmptyPlan EXCEPT
                    !.auto_moves = <<moved>>,
                    !.broken_refs = <<ReferenceEdit(RewriteFile, moved.path, moved.correct_path)>>]
    /\ similar = "none"
    /\ unreadable = {}
    /\ enforcer = <<>>
    /\ documents = <<>>
    /\ document_analyses = <<>>
    /\ stats = [InitialStats EXCEPT !.moved = 1]
    /\ backup_dir = TRUE
    /\ failures = 0
    /\ auto_status = <<"applied">>
    /\ sugg_status = <<>>
    /\ ref_status = <<"pending">>
    /\ sugg_answer = <<>>
    /\ ref_written = << <<>> >>
    /\ quit_at = 0
    /\ log = <<>>
    /\ rescan = EmptyPlan

\* the body of update_references run once more on the same ReferenceEdit,
\* with the same try and except
update_references_again ==
    /\ pc = "complete"
    /\ LET ref == migration_plan.broken_refs[1]
           old_name == basename(ref.old_ref)
           new_name == basename(ref.new_ref)
           readable == ref.file \in DOMAIN fs /\ ref.file \notin unreadable
       IN \E ok \in BOOLEAN :
            /\ ok => readable
            /\ ~ok => (~readable \/ failures < MaxFailures)
            /\ IF ok
               THEN /\ IF ReferencePresent(fs[ref.file], ref)
                       THEN /\ fs' = [fs EXCEPT ![ref.file] = Replace(@, old_name, new_name)]
                            /\ stats' = [stats EXCEPT !.references_updated = @ + 1]
                       ELSE UNCHANGED <<fs, stats>>
                    /\ UNCHANGED <<failures, log>>
               ELSE /\ failures' = IF readable THEN failures + 1 ELSE failures
                    /\ log' = Append(log, Message("reference", ref.file))
                    /\ \/ UNCHANGED fs
                       \/ /\ readable
                          /\ ReferencePresent(fs[ref.file], ref)
                          /\ \E written \in Written(Replace(fs[ref.file], old_name, new_name)) :
                               fs' = FsWrite(fs, ref.file, written)
                    /\ UNCHANGED stats
    /\ pc' = "rewritten_again"
    /\ UNCHANGED <<args, names, similar, fs0, unreadable, enforcer, documents,
                   document_analyses, migration_plan, idx, backup_dir,
                   auto_status, sugg_status, ref_status, sugg_answer, ref_written,
                   quit_at, rescan>>

NextRewrite == update_references \/ update_references_again

SpecRewrite == InitRewrite /\ [][NextRewrite]_vars

-----------------------------------------------------------------------------
(* Properties *)

InSeq(x, s) == \E k \in 1..Len(s) : s[k] = x

\* the plan has been built and nothing has been executed yet
PlanBuilt == pc \in {"confirm", "dry_run_done", "declined"}

\* the backup stage is over and the run went on
PastBackup == pc \in {"auto_moves", "suggested_moves", "update_references", "complete"}

\* the files outside the backup directory
ProjectFiles(files) ==
    [p \in {q \in DOMAIN files : ~IsPrefix(BackupDir, q.dir)} |-> files[p]]

\* a move or a rewrite has been performed
Acted ==
    \/ stats.moved > 0
    \/ stats.references_updated > 0
    \/ \E k \in 1..Len(ref_status) : ref_status[k] # "pending"
    \/ (fs # fs0 /\ ProjectFiles(fs) # ProjectFiles(fs0))

BackupFailed == \E k \in 1..Len(log) : log[k].kind = "backup"

\* the backup directory holds the pre-run content of p at p's relative path
HasPreRunCopy(p) ==
    LET copy == Path(BackupDir \o p.dir, p.name)
    IN /\ p \in DOMAIN fs0
       /\ copy \in DOMAIN fs
       /\ fs[copy] = fs0[p]

\* the document at old path p was moved by an entry of the plan
ActuallyMoved(p) ==
    \/ \E k \in 1..Len(auto_status) :
         auto_status[k] = "applied" /\ migration_plan.auto_moves[k].path = p
    \/ \E k \in 1..Len(sugg_status) :
         sugg_status[k] = "applied" /\ migration_plan.suggested_moves[k].path = p

\* C1: once the plan is built, every analysis with needs_move is in exactly one
\* of the three buckets, chosen by its confidence alone: >= 90 auto_moves,
\* 70..89 suggested_moves, below 70 manual_review.
C1_BucketPartition ==
    PlanBuilt =>
      \A k \in 1..Len(documents) :
        LET a == analyze_document(fs, unreadable, enforcer, documents[k])
            auto == InSeq(a, migration_plan.auto_moves)
            sugg == InSeq(a, migration_plan.suggested_moves)
            manual == InSeq(a, migration_plan.manual_review)
        IN a.needs_move =>
             /\ a.confidence >= 90 => (auto /\ ~sugg /\ ~manual)
             /\ (a.confidence >= 70 /\ a.confidence < 90) => (~auto /\ sugg /\ ~manual)
             /\ a.confidence < 70 => (~auto /\ ~sugg /\ manual)

C1_Witness ==
    /\ PlanBuilt
    /\ \E a \in Range(migration_plan.auto_moves) : a.confidence = 90
    /\ \E a \in Range(migration_plan.suggested_moves) : a.confidence = 70

\* C2: nothing is moved or rewritten before every document of auto_moves and
\* suggested_moves has its copy in the backup directory, and a failed copy ends
\* the run with nothing moved and nothing rewritten.
C2_BackupPrecedesMutation ==
    /\ Acted => \A k \in 1..Len(BackupList) : BackupPath(BackupList[k].path) \in DOMAIN fs
    /\ BackupFailed => (pc = "crashed" /\ ~Acted)

C2_Witness ==
    /\ BackupFailed
    /\ idx = 2
    /\ BackupPath(BackupList[1].path) \in DOMAIN fs
    /\ BackupPath(BackupList[2].path) \notin DOMAIN fs

\* C3: every file whose location or content the run changed (a moved document,
\* a referencing file rewritten by update_references) has a pre-run copy in the
\* backup directory.
C3_EveryMutatedFileBackedUp ==
    \A p \in DOMAIN fs0 :
      (\/ ActuallyMoved(p)
       \/ \E k \in 1..Len(ref_status) :
            /\ ref_status[k] = "updated"
            /\ migration_plan.broken_refs[k].file = p
            /\ ref_written[k] # fs0[p])
      => HasPreRunCopy(p)

\* C4: once the backup stage is over, and up to the end of a successful run, the
\* backup directory holds for every document of auto_moves and suggested_moves a
\* copy at its pre-move relative path with its pre-run content.
C4_BackupCompleteness ==
    PastBackup =>
      /\ \A k \in 1..Len(migration_plan.auto_moves) :
           HasPreRunCopy(migration_plan.auto_moves[k].path)
      /\ \A k \in 1..Len(migration_plan.suggested_moves) :
           HasPreRunCopy(migration_plan.suggested_moves[k].path)

C4_Witness ==
    /\ pc = "complete"
    /\ stats.moved > 0
    /\ \E k \in 1..Len(ref_status) :
         /\ ref_status[k] = "updated"
         /\ ref_written[k] # fs0[migration_plan.broken_refs[k].file]
         /\ InSeq(migration_plan.broken_refs[k].file,
                  [m \in 1..Len(BackupList) |-> BackupList[m].path])

\* C5: a referencing file has the old basename of a document replaced only
\* after that document was moved to its canonical path in the same run.
C5_RewriteOnlyAfterMove ==
    \A k \in 1..Len(ref_status) :
      ref_status[k] = "updated" => ActuallyMoved(migration_plan.broken_refs[k].old_ref)


\* C6: building the plan again right after a completed organize run, with the
\* same deterministic classifier, gives empty auto_moves and suggested_moves.
C6_Idempotence ==
    pc = "rescanned" => (rescan.auto_moves = <<>> /\ rescan.suggested_moves = <<>>)

\* the rewrite of file f failed and the failure was printed
RewriteFailureLogged(f) ==
    /\ \E j \in 1..Len(ref_status) :
         migration_plan.broken_refs[j].file = f /\ ref_status[j] = "failed"
    /\ InSeq(Message("reference", f), log)

NumberOf(s, x) == Cardinality({k \in 1..Len(s) : s[k] = x})

\* C8: a failed move is caught and logged once, is not retried, and every later
\* entry of its bucket is still attempted (in the suggested bucket: up to the
\* entry at whose prompt the user quits or the input ends); once the auto
\* bucket is left every one of its entries is applied or failed.
C8_MoveFailureIsolation ==
    /\ pc \in {"suggested_moves", "update_references", "complete"} =>
         \A k \in 1..Len(auto_status) : auto_status[k] \in {"applied", "failed"}
    /\ \A k \in 1..Len(auto_status) :
         (auto_status[k] = "failed" /\ pc # "auto_moves") =>
           \A j \in (k + 1)..Len(auto_status) : auto_status[j] # "pending"
    /\ \A k \in 1..Len(sugg_status) :
         (sugg_status[k] = "failed" /\ pc # "suggested_moves") =>
           \A j \in (k + 1)..Len(sugg_status) :
             \/ sugg_status[j] # "pending"
             \/ (quit_at # 0 /\ j >= quit_at)
             \/ \E q \in (k + 1)..j : sugg_answer[q] = "EOF"
    /\ Cardinality({k \in 1..Len(log) : log[k].kind = "move"})
         = NumberOf(auto_status, "failed") + NumberOf(sugg_status, "failed")
    /\ stats.moved = NumberOf(auto_status, "applied") + NumberOf(sugg_status, "applied")

C8_Witness ==
    /\ pc = "complete"
    /\ Len(auto_status) = 2
    /\ auto_status[1] = "failed"
    /\ auto_status[2] = "applied"
    /\ InSeq(Message("move", migration_plan.auto_moves[1].path), log)
    /\ migration_plan.auto_moves[1].path \in DOMAIN fs

\* C9: from the answer quit at entry k on, no entry at position k or later of
\* the suggested bucket is moved or prompted for, and no file changes place.
C9_QuitSemantics ==
    [][quit_at' # 0 =>
         /\ DOMAIN fs' = DOMAIN fs
         /\ stats'.moved = stats.moved
         /\ \A k \in quit_at'..Len(sugg_status') : sugg_status'[k] = "pending"
         /\ \A k \in (quit_at' + 1)..Len(sugg_answer') : sugg_answer'[k] = "none"]_vars

C9_Witness ==
    /\ pc = "complete"
    /\ quit_at = 2
    /\ sugg_status[1] = "applied"
    /\ sugg_status[2] = "pending"
    /\ migration_plan.suggested_moves[1].correct_path \in DOMAIN fs
    /\ migration_plan.suggested_moves[2].path \in DOMAIN fs

\* C10: a suggested-bucket entry is moved only in an interactive run and on the
\* answer proceed for that entry; otherwise its file stays at its original path.
C10_SuggestedMovedOnlyOnProceed ==
    \A k \in 1..Len(sugg_status) :
      /\ sugg_status[k] = "applied" => (~args.auto /\ sugg_answer[k] = "y")
      /\ (\/ args.auto
          \/ pc = "declined"
          \/ sugg_status[k] = "skipped"
          \/ (quit_at # 0 /\ quit_at <= k))
         => migration_plan.suggested_moves[k].path \in DOMAIN fs

-----------------------------------------------------------------------------
(* Stage order of execute_migration *)

AutoAttempted(k) == auto_status[k] # "pending"
SuggestedPrompted(k) == sugg_answer[k] # "none"
ReferenceAttempted(k) == ref_status[k] # "pending"

NoReferenceAttempted == \A k \in 1..Len(ref_status) : ~ReferenceAttempted(k)
NoSuggestedPrompted == \A k \in 1..Len(sugg_answer) : ~SuggestedPrompted(k)
AllAutoAttempted == \A k \in 1..Len(auto_status) : AutoAttempted(k)

\* the backup directory exists and holds a copy of every document of the two buckets
BackupTaken ==
    /\ backup_dir
    /\ \A k \in 1..Len(BackupList) :
         Path(BackupDir \o BackupList[k].path.dir, BackupList[k].path.name) \in DOMAIN fs

\* C11: in every executing organize run the stages come in a fixed order:
\* the backup is complete before any move or rewrite attempt; the auto bucket
\* is attempted before any suggested entry is prompted and before any
\* rewrite; suggested entries are prompted only in interactive runs, after
\* all auto attempts; a reference rewrite is attempted only after the last
\* move attempt (every auto entry attempted and, in interactive runs, the
\* suggested loop ended or quit), and no move is attempted after a rewrite.
C11_StageOrder ==
    [][pc # "start" =>
         /\ (auto_status' # auto_status \/ sugg_answer' # sugg_answer \/ ref_status' # ref_status)
              => BackupTaken
         /\ auto_status' # auto_status => NoSuggestedPrompted /\ NoReferenceAttempted
         /\ sugg_answer' # sugg_answer =>
              ~args.auto /\ AllAutoAttempted /\ NoReferenceAttempted
         /\ ref_status' # ref_status =>
              /\ AllAutoAttempted
              /\ \/ args.auto
                 \/ quit_at # 0
                 \/ \A k \in 1..Len(sugg_answer) : SuggestedPrompted(k)
              /\ auto_status' = auto_status /\ sugg_answer' = sugg_answer
    ]_vars

\* an interactive run that went through all four stages
C11_Witness ==
    /\ pc = "complete"
    /\ ~args.auto
    /\ \E k \in 1..Len(auto_status) : auto_status[k] = "applied"
    /\ \E k \in 1..Len(sugg_status) : sugg_status[k] = "applied"
    /\ \E k \in 1..Len(ref_status) : ref_status[k] = "updated"

-----------------------------------------------------------------------------
(* Unreadable documents *)

\* organize or report has scanned and built its plan, and nothing has been
\* executed yet (the plan is not written again afterwards)
Planned ==
    /\ args.mode \in {"organize", "report"}
    /\ document_analyses # <<>>
    /\ pc \in {"confirm", "dry_run_done", "declined", "report_done", "crashed"}
    /\ ~backup_dir

InAnyBucket(p) ==
    \E k \in 1..Len(BackupList \o migration_plan.manual_review) :
      (BackupList \o migration_plan.manual_review)[k].path = p

\* C12: a scanned document that cannot be read gets an error analysis with
\* doc_type "error" and confidence 0, is in none of auto_moves,
\* suggested_moves and manual_review, and is still counted in scanned.
C12_UnreadableIsErrorAnalysis ==
    Planned =>
      /\ stats.scanned = Len(documents)
      /\ Len(document_analyses) = Len(documents)
      /\ \A k \in 1..Len(documents) :
           documents[k] \in unreadable =>
             /\ document_analyses[k].path = documents[k]
             /\ document_analyses[k].error
             /\ document_analyses[k].doc_type = "error"
             /\ document_analyses[k].confidence = 0
             /\ ~InAnyBucket(documents[k])

\* a plan over an unreadable document and a readable one that is in a bucket
C12_Witness ==
    /\ Planned
    /\ \E k \in 1..Len(documents) : documents[k] \in unreadable
    /\ \E k \in 1..Len(documents) : documents[k] \notin unreadable /\ InAnyBucket(documents[k])
    /\ stats.scanned >= 2

-----------------------------------------------------------------------------
(* Termination of the commands *)

\* C13: per-document errors never halt an organize run: with the classifier
\* available, a run stops on an exception only when the backup failed, for
\* any number of read, move and rewrite failures, every scanned document
\* being unreadable included.
C13_PerDocumentErrorsNeverHalt ==
    args.mode = "organize" /\ pc = "crashed" => BackupFailed

\* C14: in detect and report an unreadable document degrades to an error
\* analysis and the command continues to its end: a read error never halts.
C14_ReadErrorNeverHaltsDetectReport ==
    args.mode \in {"detect", "report"} => pc # "crashed"

-----------------------------------------------------------------------------
(* Duplicate detection *)

\* a list of groups as a set of unordered pairs keyed by type and the two paths
Keyed(groups) ==
    {[type |-> groups[k].type,
      paths |-> {groups[k].documents[1].path, groups[k].documents[2].path}] :
       k \in 1..Len(groups)}

Reorderings(n) == {f \in [1..n -> 1..n] : \A i, j \in 1..n : f[i] = f[j] => i = j}

\* C15: duplicate symmetry: detection does not depend on the order of its
\* input; run on any reordering of the analyses (A and B swapped included)
\* it reports the same groups, compared as unordered pairs keyed by type
\* and the two paths.
C15_DuplicateSymmetry ==
    pc = "duplicates_found" =>
      \A f \in Reorderings(Len(document_analyses)) :
        Keyed(find_duplicates([k \in 1..Len(document_analyses) |-> document_analyses[f[k]]]))
          = Keyed(migration_plan.duplicates)

\* a reported group whose second document has the shorter name: with the
\* two swapped the containment test runs the other way round
C15_Witness ==
    /\ pc = "duplicates_found"
    /\ \E k \in 1..Len(migration_plan.duplicates) :
         LET g == migration_plan.duplicates[k]
         IN /\ g.documents[1].path.name = NameAB
            /\ g.documents[2].path.name = NameB
    /\ \E i, j \in 1..Len(document_analyses) :
         /\ document_analyses[i].doc_type = document_analyses[j].doc_type
         /\ document_analyses[i].path.name = NameA
         /\ document_analyses[j].path.name = NameB

\* C17: every DuplicateGroup pairs two documents of the same detected type,
\* the type the group carries, and no document typed "uncertain" is a member
\* of any group.
C17_GroupsAreSameTypeAndCertain ==
    pc = "duplicates_found" =>
      \A k \in 1..Len(migration_plan.duplicates) :
        LET g == migration_plan.duplicates[k]
        IN /\ g.documents[1].doc_type = g.type
           /\ g.documents[2].doc_type = g.type
           /\ g.documents[1].doc_type # "uncertain"
           /\ g.documents[2].doc_type # "uncertain"

\* a group is reported next to an uncertain document and a document of
\* another type whose names are similar to a member's
C17_Witness ==
    /\ pc = "duplicates_found"
    /\ migration_plan.duplicates # <<>>
    /\ \E i, j \in 1..Len(document_analyses) :
         /\ document_analyses[i].doc_type = "uncertain"
         /\ document_analyses[j].doc_type \notin {"uncertain", "error"}
         /\ names_are_similar(Lower(document_analyses[i].path.name),
                              Lower(document_analyses[j].path.name))

\* unordered pairs of distinct scanned documents of one type other than
\* "uncertain" whose lowered basenames are similar
SimilarPairs ==
    {pair \in SUBSET {document_analyses[k].path : k \in 1..Len(document_analyses)} :
       /\ Cardinality(pair) = 2
       /\ \E i, j \in 1..Len(document_analyses) :
            /\ pair = {document_analyses[i].path, document_analyses[j].path}
            /\ document_analyses[i].doc_type = document_analyses[j].doc_type
            /\ document_analyses[i].doc_type # "uncertain"
            /\ names_are_similar(Lower(document_analyses[i].path.name),
                                 Lower(document_analyses[j].path.name))}

GroupPaths(g) == {g.documents[1].path, g.documents[2].path}

\* C16: for the scanner's list, each unordered pair of distinct same-type
\* documents with similar filenames yields exactly one DuplicateGroup: every
\* group is such a pair, no pair of paths is reported in two groups (in
\* either order), and duplicates_found is the number of such pairs.
C16_OneGroupPerSimilarPair ==
    Planned =>
      /\ \A k \in 1..Len(migration_plan.duplicates) :
           GroupPaths(migration_plan.duplicates[k]) \in SimilarPairs
      /\ \A pair \in SimilarPairs :
           Cardinality({k \in 1..Len(migration_plan.duplicates) :
                          GroupPaths(migration_plan.duplicates[k]) = pair}) = 1
      /\ stats.duplicates_found = Cardinality(SimilarPairs)

-----------------------------------------------------------------------------
(* The filename comparison *)

\* a name without its document extension
StripExtension(name) ==
    IF Len(name) >= Len(MdExt) /\ SubSeq(name, Len(name) - Len(MdExt) + 1, Len(name)) = MdExt
    THEN SubSeq(name, 1, Len(name) - Len(MdExt))
    ELSE name

\* a name without its document extension and without hyphens and underscores
Normalized(name) == SelectSeq(StripExtension(name), LAMBDA c : c \notin {"-", "_"})

\* the comparison as stated on normalized names
SimilarAsStated(n1, n2) ==
    \/ Contains(n2, n1)
    \/ Contains(n1, n2)
    \/ /\ Abs(Len(n1) - Len(n2)) <= SimilarLenDiff
       /\ 10 * Matches(n1, n2) > 7 * Max(Len(n1), Len(n2))

\* C18: names_are_similar(n1, n2) is true exactly when, after stripping the
\* document extension and the separators hyphen and underscore from both
\* names, one normalized name is a substring of the other, or the lengths
\* differ by at most 2 and the position-aligned equal characters divided by
\* the longer length exceed 0.7.
C18_SimilarExactlyAsStated ==
    pc = "returned" => similar = SimilarAsStated(Normalized(names[1]), Normalized(names[2]))

-----------------------------------------------------------------------------
(* Reference edits *)

\* C19: every ReferenceEdit of broken_refs has as its old path the current
\* path of a document of auto_moves or suggested_moves and as its new path
\* that document's canonical path; no edit targets a document that is in
\* manual_review or in no bucket.
C19_EditsTargetPendingMoves ==
    Planned =>
      \A k \in 1..Len(migration_plan.broken_refs) :
        LET ref == migration_plan.broken_refs[k]
        IN /\ \E m \in 1..Len(BackupList) :
                /\ BackupList[m].path = ref.old_ref
                /\ BackupList[m].correct_path = ref.new_ref
           /\ \A m \in 1..Len(migration_plan.manual_review) :
                migration_plan.manual_review[m].path # ref.old_ref
           /\ \A m \in 1..Len(document_analyses) :
                document_analyses[m].path = ref.old_ref =>
                  Bucket(document_analyses[m]) \in {"auto_moves", "suggested_moves"}

\* a plan with an edit, and a manual_review document whose basename a
\* readable scanned file mentions
C19_Witness ==
    /\ Planned
    /\ migration_plan.broken_refs # <<>>
    /\ \E m \in 1..Len(migration_plan.manual_review), k \in 1..Len(documents) :
         /\ documents[k] \notin unreadable
         /\ documents[k] \in DOMAIN fs0
         /\ Contains(fs0[documents[k]], basename(migration_plan.manual_review[m].path))


\* scanned files that could be read when the plan was built
ReadableScanned ==
    {document_analyses[k].path : k \in {j \in 1..Len(document_analyses) : ~document_analyses[j].error}}

\* old paths of the pending moves
PendingMoves == {BackupList[k].path : k \in 1..Len(BackupList)}

\* the file's pre-run content mentions the move's old basename or full old path
Mentions(f, old) == Contains(fs0[f], basename(old)) \/ Contains(fs0[f], PathStr(old))

EditsFor(f, old) ==
    {k \in 1..Len(migration_plan.broken_refs) :
       migration_plan.broken_refs[k].file = f /\ migration_plan.broken_refs[k].old_ref = old}

\* C20: broken_refs holds exactly one ReferenceEdit for each combination of
\* a readable scanned file and a pending move such that the file's content
\* contains the move's old basename or its full old path, and no other
\* edit; a file that mentions several pending moves gets one edit per move.
C20_ExactlyOneEditPerFileAndMove ==
    Planned =>
      /\ \A k \in 1..Len(migration_plan.broken_refs) :
           /\ migration_plan.broken_refs[k].file \in ReadableScanned
           /\ migration_plan.broken_refs[k].old_ref \in PendingMoves
      /\ \A f \in ReadableScanned, old \in PendingMoves :
           Cardinality(EditsFor(f, old)) = IF Mentions(f, old) THEN 1 ELSE 0

-----------------------------------------------------------------------------
(* Commands that do not execute a migration *)

ReadOnlyCommand == args.dry_run \/ args.mode \in {"detect", "report", "registry"}

\* C21: organize --dry-run, detect, report and registry never mutate the
\* filesystem: no backup directory is created, no document is moved and no
\* file is rewritten.
C21_ReadOnlyCommandsMutateNothing ==
    ReadOnlyCommand =>
      /\ fs = fs0
      /\ ~backup_dir
      /\ stats.moved = 0 /\ stats.renamed = 0 /\ stats.references_updated = 0

\* a report that has ended with moves and reference edits in its plan
C21_Witness ==
    /\ pc = "report_done"
    /\ BackupList # <<>>
    /\ migration_plan.broken_refs # <<>>

-----------------------------------------------------------------------------
(* Counters of execute_moves *)

\* the entries of both buckets with the outcome of their move attempt
MoveOutcomes ==
    [k \in 1..Len(auto_status) |->
       [analysis |-> migration_plan.auto_moves[k], status |-> auto_status[k]]]
    \o [k \in 1..Len(sugg_status) |->
       [analysis |-> migration_plan.suggested_moves[k], status |-> sugg_status[k]]]

Applied(o) == o.status = "applied"

AppliedRenaming(o) ==
    Applied(o) /\ basename(o.analysis.path) # basename(o.analysis.correct_path)

\* C22: the moved counter is the number of entries whose move was applied,
\* the renamed counter the number of applied entries whose source and
\* destination basenames differ; a skipped or failed entry changes neither,
\* so renamed <= moved.
C22_MoveCounters ==
    args.mode = "organize" /\ pc # "start" =>
      /\ stats.moved = Len(SelectSeq(MoveOutcomes, Applied))
      /\ stats.renamed = Len(SelectSeq(MoveOutcomes, AppliedRenaming))
      /\ stats.renamed <= stats.moved

\* execute_moves is over with a move that kept its basename applied, one
\* that changed it applied, and an entry that failed or was skipped
C22_Witness ==
    /\ pc = "complete"
    /\ stats.moved = 2
    /\ stats.renamed = 1
    /\ \E k \in 1..Len(MoveOutcomes) : MoveOutcomes[k].status \in {"failed", "skipped"}

-----------------------------------------------------------------------------
(* Failures of update_references *)

\* C23: rewrite failure isolation: a read or write failure while rewriting
\* one ReferenceEdit is caught and logged and leaves references_updated
\* unchanged for that edit, and every later ReferenceEdit of broken_refs is
\* still processed.
C23_RewriteFailureIsolation ==
    pc = "complete" =>
      /\ \A k \in 1..Len(ref_status) : ref_status[k] # "pending"
      /\ \A k \in 1..Len(ref_status) :
           ref_status[k] = "failed" =>
             RewriteFailureLogged(migration_plan.broken_refs[k].file)
      /\ stats.references_updated = NumberOf(ref_status, "updated")

\* a completed run in which a rewrite failed and a later edit was applied
C23_Witness ==
    /\ pc = "complete"
    /\ \E j, k \in 1..Len(ref_status) :
         /\ j < k
         /\ ref_status[j] = "failed"
         /\ ref_status[k] = "updated"

-----------------------------------------------------------------------------
(* Which documents are bucketed *)

\* the classifier's answer for the k-th scanned document, which was read
Answer(k) == enforcer[ClassifierKey(documents[k], fs0[documents[k]])]

\* C24: a document is in one of auto_moves, suggested_moves, manual_review
\* if and only if it was read, the classifier returned a type other than
\* "uncertain" with confidence >= 50, and the canonical path it resolves is
\* present and differs from the document's path; hence every manual_review
\* entry has confidence in [50, 70).
C24_BucketedIffMovable ==
    Planned =>
      /\ \A k \in 1..Len(documents) :
           InAnyBucket(documents[k]) <=>
             /\ ~document_analyses[k].error
             /\ Answer(k).doc_type # "uncertain"
             /\ Answer(k).confidence >= DetectThreshold
             /\ Answer(k).correct_path # None
             /\ Answer(k).correct_path # documents[k]
      /\ \A m \in 1..Len(migration_plan.manual_review) :
           /\ migration_plan.manual_review[m].confidence >= DetectThreshold
           /\ migration_plan.manual_review[m].confidence < SuggestedThreshold

\* a plan with a manual_review entry at confidence 50, next to a document
\* the classifier typed with confidence 49 and would place elsewhere
C24_Witness ==
    /\ Planned
    /\ \E m \in 1..Len(migration_plan.manual_review) :
         migration_plan.manual_review[m].confidence = DetectThreshold
    /\ \E k \in 1..Len(documents) :
         /\ ~document_analyses[k].error
         /\ Answer(k).confidence = DetectThreshold - 1
         /\ Answer(k).correct_path \notin {None, documents[k]}
         /\ ~InAnyBucket(documents[k])

-----------------------------------------------------------------------------
(* The plan during execution *)

Executing == pc \in {"backup", "auto_moves", "suggested_moves", "update_references"}

\* C25: the migration plan is read-only during execution: create_backup,
\* execute_moves and update_references leave the five plan sequences and
\* every analysis record in them unchanged; of the counters only moved,
\* renamed and references_updated change.
C25_PlanReadOnlyDuringExecution ==
    [][Executing =>
         /\ migration_plan' = migration_plan
         /\ [stats' EXCEPT !.moved = 0, !.renamed = 0, !.references_updated = 0]
              = [stats EXCEPT !.moved = 0, !.renamed = 0, !.references_updated = 0]
    ]_vars

\* a completed run that moved a document and updated a reference, with all
\* five plan sequences non-empty
C25_Witness ==
    /\ pc = "complete"
    /\ stats.moved > 0
    /\ stats.references_updated > 0
    /\ migration_plan.auto_moves # <<>>
    /\ migration_plan.manual_review # <<>>
    /\ migration_plan.duplicates # <<>>
    /\ migration_plan.broken_refs # <<>>

-----------------------------------------------------------------------------
(* The candidate list *)

\* C26: scan_all_documents returns every markdown file at most once: no
\* path occurs twice in the candidate list, files under project_docs
\* included, so scanned is the number of distinct documents and no document
\* is analysed or bucketed twice.
C26_ScanListsEachDocumentOnce ==
    pc # "start" /\ args.mode # "registry" =>
      /\ \A i, j \in 1..Len(documents) : documents[i] = documents[j] => i = j
      /\ stats.scanned = Cardinality(Range(documents))
      /\ \A i, j \in 1..Len(BackupList) : BackupList[i].path = BackupList[j].path => i = j

-----------------------------------------------------------------------------
(* Destinations of moves *)

InBackup(p) == IsPrefix(BackupDir, p.dir)

\* C27: no applied move destroys a document: after execute_moves, and
\* before any reference is rewritten, the pre-run content of every scanned
\* document still exists at some path outside the backup directory.
C27_NoMoveDestroysADocument ==
    args.mode = "organize" /\ NumberOf(ref_status, "updated") = 0 =>
      \A k \in 1..Len(documents) :
        \E q \in DOMAIN fs : ~InBackup(q) /\ fs[q] = fs0[documents[k]]

-----------------------------------------------------------------------------
(* Repeating a reference rewrite *)

\* C28: applying the rewrite of one ReferenceEdit twice, with no failure in
\* either application, leaves the referencing file with the content that
\* applying it once leaves, for every old and new basename, a new basename
\* that contains the old one included.
C28_RewriteTwiceIsRewriteOnce ==
    pc = "rewritten_again" /\ log = <<>> =>
      fs[RewriteFile] = IF ref_status[1] = "updated" THEN ref_written[1] ELSE fs0[RewriteFile]

-----------------------------------------------------------------------------
(* Interactive runs that do not proceed *)

\* C29: in interactive mode, when the overall confirmation is declined or
\* the plan has no auto and no suggested move, execute_migration changes
\* nothing: no backup directory is created, no document is moved, no file
\* is rewritten, and moved, renamed and references_updated stay 0.
C29_NotConfirmedChangesNothing ==
    /\ args.mode = "organize"
    /\ ~args.auto
    /\ pc # "start"
    /\ (pc = "declined" \/ BackupList = <<>>)
    => /\ fs = fs0
       /\ ~backup_dir
       /\ pc \notin {"backup", "auto_moves", "suggested_moves", "update_references", "complete"}
       /\ stats.moved = 0 /\ stats.renamed = 0 /\ stats.references_updated = 0

\* the confirmation of a plan with moves and reference edits was declined
C29_Witness ==
    /\ pc = "declined"
    /\ ~args.auto
    /\ BackupList # <<>>
    /\ migration_plan.broken_refs # <<>>

-----------------------------------------------------------------------------
(* Error analyses and duplicate groups *)

\* C30: a document whose analysis is an error analysis (doc_type "error")
\* is never a member of any DuplicateGroup.
C30_NoErrorAnalysisInDuplicateGroup ==
    Planned =>
      \A k \in 1..Len(migration_plan.duplicates) :
        /\ ~migration_plan.duplicates[k].documents[1].error
        /\ ~migration_plan.duplicates[k].documents[2].error
        /\ migration_plan.duplicates[k].type # "error"

\* C31: names_are_similar is total: for every pair of filenames, including
\* names that normalize to the empty string, the call returns a boolean and
\* never divides by zero; the ratio over max(len) is evaluated only when neither
\* normalized name is a substring of the other, and then max(len) is positive.
C31_NamesAreSimilarIsTotal ==
    /\ pc # "crashed"
    /\ pc = "returned" =>
      /\ similar \in BOOLEAN
      /\ DivisionReached(Clean(names[1]), Clean(names[2])) =>
            /\ ~Contains(Clean(names[2]), Clean(names[1]))
            /\ ~Contains(Clean(names[1]), Clean(names[2]))
            /\ Max(Len(Clean(names[1])), Len(Clean(names[2]))) > 0

\* both names normalize to the empty string and the call returned True
C31_Witness ==
    /\ pc = "returned"
    /\ names[1] # names[2]
    /\ Clean(names[1]) = <<>>
    /\ Clean(names[2]) = <<>>
    /\ similar = TRUE

====
